---- MODULE Spec2Model ----
(***************************************************************************)
(* IsoTarget: the dual-view (AP / LAT) DRR-KV matcher of src/IsoTarget.py. *)
(* The model covers class OrthogonalMatchUI: the per-view transform state, *)
(* the undo history, the raster slots and the compositor's geometry.       *)
(*                                                                         *)
(* Numbers.  Python floats are modelled exactly, in fixed units:           *)
(*   zoom               tenths          (1.0 is 10, 0.2 is 2, 5.0 is 50)   *)
(*   alpha, adjustments hundredths      (0.5 is 50, 1.0 is 100)            *)
(*   rotation           whole degrees                                      *)
(*   pan                a fraction <<n, d>> in lowest terms, d > 0         *)
(* so the rounding error of binary floating point is not modelled.         *)
(*                                                                         *)
(* Objects.  The five containers kv_offsets, rotations, zoom_levels,       *)
(* pan_offsets and adjustment_values are Python dicts, mutated in place by *)
(* the handlers.  _undo_last_action binds the five attributes to the dicts *)
(* stored in the history entry it restores, so those dicts are then shared *)
(* between the live state and that entry.  The variable alias holds the    *)
(* index of the history entry the live containers are shared with (0 when  *)
(* they are objects of their own); a write to a live container is also a   *)
(* write to that entry.                                                    *)
(*                                                                         *)
(* Widgets.  ttk.Scale.set(v) clips v to the scale's range and then calls  *)
(* the scale's command with it (the widget's own bindings move the slider  *)
(* through set; the source guards the rotation scale against exactly this  *)
(* with _ignore_rotation_callback).  The three adjustment scales have      *)
(* command _adjust_image and no guard, so every set of one of them         *)
(* re-enters _adjust_image.                                                *)
(***************************************************************************)
EXTENDS Integers, Sequences, FiniteSets, TLC

VARIABLES
    images,                     \* slot -> working raster, or None
    original_images,            \* slot -> original raster, or None
    kv_offsets,                 \* [ap_x, ap_y, lat_x, lat_y]
    rotations,                  \* [ap, lat], degrees
    zoom_levels,                \* [ap, lat], tenths
    pan_offsets,                \* [ap, lat] -> <<x, y>>, each a fraction
    adjustment_values,          \* kind -> [ap, lat], hundredths
    alpha,                      \* hundredths
    use_color_overlay,          \* BOOLEAN
    history,                    \* sequence of snapshots
    alias,                      \* index of the entry the live dicts are shared with, or 0
    drag_start,                 \* None or <<x, y>>
    active_view,                \* "none", "ap", "lat"
    current_adjustment_image,   \* a slot
    rotation_scale,             \* value shown by the rotation slider, degrees
    rotation_label,             \* degrees shown by the rotation label
    status_var,                 \* text of the status bar
    tk_images,                  \* what the six canvases show
    nEvents                     \* number of user events handled so far

vars == <<images, original_images, kv_offsets, rotations, zoom_levels, pan_offsets,
          adjustment_values, alpha, use_color_overlay, history, alias, drag_start,
          active_view, current_adjustment_image, rotation_scale, rotation_label,
          status_var, tk_images, nEvents>>

---------------------------------------------------------------------------
(* Program constants *)

DISPLAY_W == 600
DISPLAY_H == 400
ZoomUnit == 10
ZoomMin == 2
ZoomMax == 50
ZoomStep == 1
HistoryMax == 20
AdjUnit == 100
AdjMin == 10
AdjMax == 300
AlphaDefault == 50
RotMin == -180
RotMax == 180
RotMod == 360

Slots == {"drr_ap", "kv_ap", "drr_lat", "kv_lat"}
Views == {"ap", "lat"}
Kinds == {"brightness", "contrast", "sharpness"}
None == <<>>

FilterNames == {"Washburn Ichabod Balance", "Low-Dose Boost",
                "Skeletal Emphasis (Collins)", "Local Contrast (Jayhawk)",
                "Soft Tissue Enhance", "RadFilter (Match Assist)"}

---------------------------------------------------------------------------
(* Bounds of the model *)

MaxEvents == 3
ZoomInTicks == 41
ZoomOutTicks == 10
NudgeTicks == 25
UndoTicks == 25

---------------------------------------------------------------------------
(* Arithmetic helpers *)

Abs(n) == IF n < 0 THEN -n ELSE n

RECURSIVE GCD(_, _)
GCD(a, b) == IF b = 0 THEN a ELSE GCD(b, a % b)

\* A fraction in lowest terms with a positive denominator.
Frac(n, d) ==
    LET g == GCD(Abs(n), Abs(d))
        sgn == IF d < 0 THEN -1 ELSE 1
    IN  <<sgn * (n \div g), sgn * (d \div g)>>

FracAdd(p, q) == Frac(p[1] * q[2] + q[1] * p[2], p[2] * q[2])

\* Python int(x): truncation towards zero.
IntOf(p) == IF p[1] >= 0 THEN p[1] \div p[2] ELSE -((-p[1]) \div p[2])

Clamp(v, lo, hi) == IF v < lo THEN lo ELSE IF v > hi THEN hi ELSE v

ViewOf(slot) == IF slot \in {"drr_ap", "kv_ap"} THEN "ap" ELSE "lat"

---------------------------------------------------------------------------
(* Rasters.  A raster is <<dataset, slot, edit, b, c, s>>: the file it was *)
(* decoded from, and the edit that produced it from that original.  The   *)
(* pixel arithmetic of Pillow is not modelled: two rasters are equal when  *)
(* the same edit was applied to the same original.                         *)

Decode(dataset, slot) == <<dataset, slot, "orig", AdjUnit, AdjUnit, AdjUnit>>

\* ImageEnhance.X(img).enhance(f) is Image.blend(degenerate, img, f), which
\* returns a copy of img when f = 1.0; any other factor gives a raster that
\* depends on the kind, the factor and the raster it is applied to.
Enhance(kind, factor, img) ==
    IF factor = AdjUnit THEN img ELSE <<kind, factor, img>>

\* As EnhanceChain, with contrast applied before brightness.
EnhanceChainContrastFirst(orig, b, c, sh) ==
    Enhance("sharpness", sh, Enhance("brightness", b, Enhance("contrast", c, orig)))

\* Brightness, then Contrast, then Sharpness, each on the result of the one
\* before, starting from a copy of the original.
EnhanceChain(orig, b, c, sh) ==
    Enhance("sharpness", sh, Enhance("contrast", c, Enhance("brightness", b, orig)))

\* The six recipes: each a fixed chain of operations on the raster it is
\* given, so its result depends on the recipe and on that raster.
ApplyRecipe(name, src) == <<name, src>>

XKey(view) == IF view = "ap" THEN "ap_x" ELSE "lat_x"
YKey(view) == IF view = "ap" THEN "ap_y" ELSE "lat_y"
DrrKey(view) == IF view = "ap" THEN "drr_ap" ELSE "drr_lat"
KvKey(view) == IF view = "ap" THEN "kv_ap" ELSE "kv_lat"

---------------------------------------------------------------------------
(* The object's state as one record, so that a handler is an operator from *)
(* state to state and a handler that calls another composes them.          *)

DefaultKv == [ap_x |-> 0, ap_y |-> 0, lat_x |-> 0, lat_y |-> 0]
DefaultRot == [ap |-> 0, lat |-> 0]
DefaultZoom == [ap |-> ZoomUnit, lat |-> ZoomUnit]
DefaultPan == [ap |-> << <<0, 1>>, <<0, 1>> >>, lat |-> << <<0, 1>>, <<0, 1>> >>]
DefaultAdj ==
    [brightness |-> [ap |-> AdjUnit, lat |-> AdjUnit],
     contrast |-> [ap |-> AdjUnit, lat |-> AdjUnit],
     sharpness |-> [ap |-> AdjUnit, lat |-> AdjUnit]]

initial_state ==
    [kv_offsets |-> DefaultKv, rotations |-> DefaultRot, zoom_levels |-> DefaultZoom,
     pan_offsets |-> DefaultPan, adjustment_values |-> DefaultAdj,
     alpha |-> AlphaDefault, use_color_overlay |-> FALSE]

init_state ==
    [images |-> [k \in Slots |-> None],
     original_images |-> [k \in Slots |-> None],
     kv_offsets |-> DefaultKv,
     rotations |-> DefaultRot,
     zoom_levels |-> DefaultZoom,
     pan_offsets |-> DefaultPan,
     adjustment_values |-> DefaultAdj,
     alpha |-> AlphaDefault,
     use_color_overlay |-> FALSE,
     history |-> <<>>,
     alias |-> 0,
     drag_start |-> None,
     active_view |-> "none",
     current_adjustment_image |-> "drr_ap",
     rotation_scale |-> 0,
     rotation_label |-> 0,
     status_var |-> "Ready",
     tk_images |-> [k \in Views \cup Slots |-> None]]

Cur ==
    [images |-> images, original_images |-> original_images,
     kv_offsets |-> kv_offsets, rotations |-> rotations,
     zoom_levels |-> zoom_levels, pan_offsets |-> pan_offsets,
     adjustment_values |-> adjustment_values, alpha |-> alpha,
     use_color_overlay |-> use_color_overlay, history |-> history,
     alias |-> alias, drag_start |-> drag_start, active_view |-> active_view,
     current_adjustment_image |-> current_adjustment_image,
     rotation_scale |-> rotation_scale, rotation_label |-> rotation_label,
     status_var |-> status_var,
     tk_images |-> tk_images]

\* The primed variables take the fields of t.
Becomes(t) ==
    /\ images' = t.images
    /\ original_images' = t.original_images
    /\ kv_offsets' = t.kv_offsets
    /\ rotations' = t.rotations
    /\ zoom_levels' = t.zoom_levels
    /\ pan_offsets' = t.pan_offsets
    /\ adjustment_values' = t.adjustment_values
    /\ alpha' = t.alpha
    /\ use_color_overlay' = t.use_color_overlay
    /\ history' = t.history
    /\ alias' = t.alias
    /\ drag_start' = t.drag_start
    /\ active_view' = t.active_view
    /\ current_adjustment_image' = t.current_adjustment_image
    /\ rotation_scale' = t.rotation_scale
    /\ rotation_label' = t.rotation_label
    /\ status_var' = t.status_var
    /\ tk_images' = t.tk_images

\* The variables hold the fields of t.
StartsAs(t) ==
    /\ images = t.images
    /\ original_images = t.original_images
    /\ kv_offsets = t.kv_offsets
    /\ rotations = t.rotations
    /\ zoom_levels = t.zoom_levels
    /\ pan_offsets = t.pan_offsets
    /\ adjustment_values = t.adjustment_values
    /\ alpha = t.alpha
    /\ use_color_overlay = t.use_color_overlay
    /\ history = t.history
    /\ alias = t.alias
    /\ drag_start = t.drag_start
    /\ active_view = t.active_view
    /\ current_adjustment_image = t.current_adjustment_image
    /\ rotation_scale = t.rotation_scale
    /\ rotation_label = t.rotation_label
    /\ status_var = t.status_var
    /\ tk_images = t.tk_images

\* An in-place write to one of the five live dicts: the history entry that
\* shares the dict (if any) sees it too.
WriteDict(s, field, val) ==
    [s EXCEPT ![field] = val,
              !.history = IF s.alias > 0
                          THEN [@ EXCEPT ![s.alias][field] = val]
                          ELSE @]

\* ttk.Scale.set clips to the scale's range.
ScaleShown(v) == Clamp(v, RotMin, RotMax)

---------------------------------------------------------------------------
(* Handlers, as operators from state to state *)

Snapshot(s) ==
    [kv_offsets |-> s.kv_offsets, rotations |-> s.rotations,
     zoom_levels |-> s.zoom_levels, pan_offsets |-> s.pan_offsets,
     adjustment_values |-> s.adjustment_values, alpha |-> s.alpha,
     use_color_overlay |-> s.use_color_overlay]

\* As PushBounded, with pop() in place of pop(0): a full history drops the
\* entry just appended.
PushBoundedDropsNewest(h, st) ==
    IF Len(h) + 1 > HistoryMax THEN h ELSE Append(h, st)

\* As PushBounded, with the limit one entry higher.
PushBoundedOneMore(h, st) ==
    IF Len(h) + 1 > HistoryMax + 1 THEN Tail(Append(h, st)) ELSE Append(h, st)

\* history.append(st); if len(history) > 20: history.pop(0)
PushBounded(h, st) ==
    IF Len(h) + 1 > HistoryMax THEN Tail(Append(h, st)) ELSE Append(h, st)

\* The pushed entry holds copies; an evicting push moves every entry down.
save_state(s) ==
    [s EXCEPT !.history = PushBounded(@, Snapshot(s)),
              !.alias = IF Len(s.history) + 1 > HistoryMax /\ @ > 0 THEN @ - 1 ELSE @]

\* Where the compositor pastes the scaled DRR and KV of a view.
PasteDrr(s, view) ==
    <<-IntOf(s.pan_offsets[view][1]), -IntOf(s.pan_offsets[view][2])>>

\* As PasteKv, but the pan does not move the KV.
PasteKvIgnoresPan(s, view) ==
    <<s.kv_offsets[XKey(view)], s.kv_offsets[YKey(view)]>>

\* kv_view.paste(kv_scaled, (dx_rel - int(px), dy_rel - int(py)))
PasteKv(s, view) ==
    <<s.kv_offsets[XKey(view)] - IntOf(s.pan_offsets[view][1]),
      s.kv_offsets[YKey(view)] - IntOf(s.pan_offsets[view][2])>>

\* int(DISPLAY_W * z), int(DISPLAY_H * z)
ScaledSize(z) == <<(DISPLAY_W * z) \div ZoomUnit, (DISPLAY_H * z) \div ZoomUnit>>

\* As KvRotation, but the stored AP rotation is applied on either view.
KvRotationAnyView(s, view) == s.rotations.ap

\* The angle the compositor rotates the scaled KV of a view by: AP's stored
\* rotation on AP when it is not 0, none otherwise.
KvRotation(s, view) ==
    IF view = "ap" /\ s.rotations.ap # 0 THEN s.rotations.ap ELSE 0

\* The display raster of a view, as the tuple of what determines it. The
\* scaled DRR is pasted as it is: nothing rotates it.
Composite(s, view) ==
    [drr |-> s.images[DrrKey(view)],
     kv |-> s.images[KvKey(view)],
     size |-> ScaledSize(s.zoom_levels[view]),
     drr_rotation |-> 0,
     kv_rotation |-> KvRotation(s, view),
     drr_at |-> PasteDrr(s, view),
     kv_at |-> PasteKv(s, view),
     merge |-> IF s.use_color_overlay THEN "color" ELSE "blend",
     blend_alpha |-> IF s.use_color_overlay THEN 0 ELSE s.alpha]

\* As ViewImage, but a view that is not complete is blanked.
ViewImageBlanks(s, view) ==
    IF s.images[DrrKey(view)] # None /\ s.images[KvKey(view)] # None
    THEN <<Composite(s, view)>>
    ELSE None

\* What a view's canvas shows after a redraw: the composite of the view when
\* both of its rasters are loaded, and what it showed before otherwise.
ViewImage(s, view) ==
    IF s.images[DrrKey(view)] # None /\ s.images[KvKey(view)] # None
    THEN <<Composite(s, view)>>
    ELSE s.tk_images[view]

\* What a slot's thumbnail shows after a redraw.
Thumbnail(s, slot) ==
    IF s.images[slot] # None THEN s.images[slot] ELSE s.tk_images[slot]

\* As update_match_overlay, but each redraw also pushes a snapshot.
update_match_overlay_and_save(s) ==
    [save_state(s) EXCEPT !.tk_images =
        [ap |-> ViewImage(s, "ap"), lat |-> ViewImage(s, "lat"),
         drr_ap |-> Thumbnail(s, "drr_ap"), kv_ap |-> Thumbnail(s, "kv_ap"),
         drr_lat |-> Thumbnail(s, "drr_lat"), kv_lat |-> Thumbnail(s, "kv_lat")]]

\* _update_match_overlay(): both views, then the four thumbnails.
update_match_overlay(s) ==
    [s EXCEPT !.tk_images =
        [ap |-> ViewImage(s, "ap"), lat |-> ViewImage(s, "lat"),
         drr_ap |-> Thumbnail(s, "drr_ap"), kv_ap |-> Thumbnail(s, "kv_ap"),
         drr_lat |-> Thumbnail(s, "drr_lat"), kv_lat |-> Thumbnail(s, "kv_lat")]]

\* As adjust_image, but a target without an original is looked up before
\* the value is stored.
adjust_image_needs_original(s, kind, value) ==
    LET view == ViewOf(s.current_adjustment_image)
        s1 == WriteDict(s, "adjustment_values",
                        [s.adjustment_values EXCEPT ![kind][view] = value])
        original == s.original_images[s.current_adjustment_image]
        img == EnhanceChain(original,
                            s1.adjustment_values["brightness"][view],
                            s1.adjustment_values["contrast"][view],
                            s1.adjustment_values["sharpness"][view])
        s2 == [s1 EXCEPT !.images[s.current_adjustment_image] = img]
    IN  IF original = None
        THEN s
        ELSE [update_match_overlay(save_state(s2)) EXCEPT
                 !.status_var = "Adjusted " \o kind]

\* As adjust_image, but the enhancers work on the original itself and not
\* on a copy of it.
adjust_image_in_place(s, kind, value) ==
    LET view == ViewOf(s.current_adjustment_image)
        s1 == WriteDict(s, "adjustment_values",
                        [s.adjustment_values EXCEPT ![kind][view] = value])
        original == s.original_images[s.current_adjustment_image]
        img == EnhanceChain(original,
                            s1.adjustment_values["brightness"][view],
                            s1.adjustment_values["contrast"][view],
                            s1.adjustment_values["sharpness"][view])
        s2 == [s1 EXCEPT !.images[s.current_adjustment_image] = img,
                         !.original_images[s.current_adjustment_image] = img]
    IN  IF original = None
        THEN s1
        ELSE [update_match_overlay(save_state(s2)) EXCEPT
                 !.status_var = "Adjusted " \o kind]

\* _adjust_image(adj_type, value)
adjust_image(s, kind, value) ==
    LET view == ViewOf(s.current_adjustment_image)
        s1 == WriteDict(s, "adjustment_values",
                        [s.adjustment_values EXCEPT ![kind][view] = value])
        original == s.original_images[s.current_adjustment_image]
        img == EnhanceChain(original,
                            s1.adjustment_values["brightness"][view],
                            s1.adjustment_values["contrast"][view],
                            s1.adjustment_values["sharpness"][view])
        s2 == [s1 EXCEPT !.images[s.current_adjustment_image] = img]
    IN  IF original = None
        THEN s1
        ELSE [update_match_overlay(save_state(s2)) EXCEPT
                 !.status_var = "Adjusted " \o kind]

\* brightness_scale.set(b); contrast_scale.set(c); sharpness_scale.set(sh):
\* each set calls the scale's command, _adjust_image, with the clipped value.
set_adjustment_scales(s, b, c, sh) ==
    adjust_image(
        adjust_image(
            adjust_image(s, "brightness", Clamp(b, AdjMin, AdjMax)),
            "contrast", Clamp(c, AdjMin, AdjMax)),
        "sharpness", Clamp(sh, AdjMin, AdjMax))

\* The three scales set to the current values of a view.
show_adjustment_scales(s, view) ==
    set_adjustment_scales(s, s.adjustment_values["brightness"][view],
                             s.adjustment_values["contrast"][view],
                             s.adjustment_values["sharpness"][view])

\* _rotate_active(val): the user has moved the rotation slider to val.
rotate_active(s, val) ==
    LET s0 == [s EXCEPT !.rotation_scale = ScaleShown(val)]
    IN  IF s.active_view # "ap"
        THEN s0
        ELSE update_match_overlay(save_state(
                 WriteDict([s0 EXCEPT !.rotation_label = val],
                           "rotations", [s.rotations EXCEPT !.ap = val])))

\* _activate_drag(event, view)
activate_drag(s, view, pt) ==
    [s EXCEPT !.active_view = view,
              !.drag_start = pt,
              !.rotation_scale = IF view = "ap" THEN ScaleShown(s.rotations.ap) ELSE 0,
              !.rotation_label = IF view = "ap" THEN s.rotations.ap ELSE 0,
              !.status_var = IF view = "ap"
                             THEN "AP view selected"
                             ELSE "Lateral view selected"]

\* As MovedOffsets, but the vertical move reaches only the moved view.
MovedOffsetsOwnView(kv, xkey, dx, dy) ==
    [kv EXCEPT ![xkey] = @ + dx,
               ![IF xkey = "ap_x" THEN "ap_y" ELSE "lat_y"] = @ + dy]

\* As MovedOffsets, but the horizontal move reaches both views.
MovedOffsetsBothX(kv, xkey, dx, dy) ==
    [kv EXCEPT !.ap_x = @ + dx, !.lat_x = @ + dx, !.ap_y = @ + dy, !.lat_y = @ + dy]

\* The offsets after a horizontal move on one view and a vertical move.
MovedOffsets(kv, xkey, dx, dy) ==
    [kv EXCEPT ![xkey] = @ + dx, !.ap_y = @ + dy, !.lat_y = @ + dy]

\* As drag_kv, but the drag start stays where the button went down.
drag_kv_keeps_start(s, view, pt) ==
    IF s.drag_start # None /\ s.images[KvKey(view)] # None
    THEN LET dx == pt[1] - s.drag_start[1]
             dy == pt[2] - s.drag_start[2]
             s2 == WriteDict(s, "kv_offsets",
                             MovedOffsets(s.kv_offsets, XKey(view), dx, dy))
         IN  update_match_overlay(save_state(s2))
    ELSE s

\* _drag_kv(event, view)
drag_kv(s, view, pt) ==
    IF s.drag_start # None /\ s.images[KvKey(view)] # None
    THEN LET dx == pt[1] - s.drag_start[1]
             dy == pt[2] - s.drag_start[2]
             s1 == [s EXCEPT !.drag_start = pt]
             s2 == WriteDict(s1, "kv_offsets",
                             MovedOffsets(s.kv_offsets, XKey(view), dx, dy))
         IN  update_match_overlay(save_state(s2))
    ELSE s

\* As nudge_kv, but a nudge with no active view is ignored.
nudge_kv_needs_view(s, dx, dy) ==
    IF s.active_view = "none"
    THEN s
    ELSE update_match_overlay(save_state(
             WriteDict(s, "kv_offsets",
                       MovedOffsets(s.kv_offsets, XKey(s.active_view), dx, dy))))

\* _nudge_kv(dx, dy)
nudge_kv(s, dx, dy) ==
    LET kv == IF s.active_view # "none"
              THEN MovedOffsets(s.kv_offsets, XKey(s.active_view), dx, dy)
              ELSE [s.kv_offsets EXCEPT !.ap_y = @ + dy, !.lat_y = @ + dy]
    IN  update_match_overlay(save_state(WriteDict(s, "kv_offsets", kv)))

\* As PanAfterZoom, with the ratio inverted: p + c * (1 - old / new).
PanAfterZoomInverted(p, c, old, new) == FracAdd(p, Frac(c * (new - old), new))

\* p + c * (1 - new / old)
PanAfterZoom(p, c, old, new) == FracAdd(p, Frac(c * (old - new), old))

\* As ZoomTarget, without the upper limit.
ZoomTargetNoCeiling(old, up) ==
    IF old + (IF up THEN ZoomStep ELSE -ZoomStep) < ZoomMin
    THEN ZoomMin
    ELSE old + (IF up THEN ZoomStep ELSE -ZoomStep)

\* max(0.2, min(5.0, old + step))
ZoomTarget(old, up) ==
    Clamp(old + (IF up THEN ZoomStep ELSE -ZoomStep), ZoomMin, ZoomMax)

\* As zoom, but only the view's KV has to be loaded.
zoom_needs_kv_only(s, view, up, cx, cy) ==
    LET old == s.zoom_levels[view]
        new == ZoomTarget(old, up)
        pan == <<PanAfterZoom(s.pan_offsets[view][1], cx, old, new),
                 PanAfterZoom(s.pan_offsets[view][2], cy, old, new)>>
        s1 == WriteDict(s, "pan_offsets", [s.pan_offsets EXCEPT ![view] = pan])
        s2 == WriteDict(s1, "zoom_levels", [s.zoom_levels EXCEPT ![view] = new])
    IN  IF s.images[KvKey(view)] = None
        THEN s
        ELSE IF new = old
        THEN s
        ELSE update_match_overlay(save_state(s2))

\* _zoom(event, view): up is event.delta > 0, (cx, cy) the canvas point.
zoom(s, view, up, cx, cy) ==
    LET old == s.zoom_levels[view]
        new == ZoomTarget(old, up)
        pan == <<PanAfterZoom(s.pan_offsets[view][1], cx, old, new),
                 PanAfterZoom(s.pan_offsets[view][2], cy, old, new)>>
        s1 == WriteDict(s, "pan_offsets", [s.pan_offsets EXCEPT ![view] = pan])
        s2 == WriteDict(s1, "zoom_levels", [s.zoom_levels EXCEPT ![view] = new])
    IN  IF s.images[DrrKey(view)] = None \/ s.images[KvKey(view)] = None
        THEN s
        ELSE IF new = old
        THEN s
        ELSE update_match_overlay(save_state(s2))

\* As mouse_scroll, but the sum is stored as it is, not modulo 360.
mouse_scroll_unwrapped(s, view, up) ==
    IF view = "ap"
    THEN LET r == s.rotations.ap + (IF up THEN 1 ELSE -1)
             s1 == WriteDict(s, "rotations", [s.rotations EXCEPT !.ap = r])
             s2 == [s1 EXCEPT !.rotation_scale = ScaleShown(r), !.rotation_label = r]
         IN  update_match_overlay(save_state(s2))
    ELSE s

\* _mouse_scroll(event, view): a plain wheel tick.
mouse_scroll(s, view, up) ==
    IF view = "ap"
    THEN LET r == (s.rotations.ap + (IF up THEN 1 ELSE -1)) % RotMod
             s1 == WriteDict(s, "rotations", [s.rotations EXCEPT !.ap = r])
             s2 == [s1 EXCEPT !.rotation_scale = ScaleShown(r), !.rotation_label = r]
         IN  update_match_overlay(save_state(s2))
    ELSE s

\* The five live dicts rebound to fresh objects holding the defaults, and the
\* two blend variables set: no history entry shares the live dicts afterwards.
WithDefaults(s) ==
    [s EXCEPT !.kv_offsets = initial_state.kv_offsets,
              !.rotations = initial_state.rotations,
              !.zoom_levels = initial_state.zoom_levels,
              !.pan_offsets = initial_state.pan_offsets,
              !.adjustment_values = initial_state.adjustment_values,
              !.alpha = initial_state.alpha,
              !.use_color_overlay = initial_state.use_color_overlay,
              !.alias = 0]

\* As reset_to_default, but the working rasters are left as they are.
reset_to_default_keeps_rasters(s) ==
    LET s2 == [WithDefaults(s) EXCEPT !.rotation_scale = 0, !.rotation_label = 0]
        s4 == [s2 EXCEPT !.active_view = "none", !.status_var = "Restored to default"]
    IN  update_match_overlay(save_state(s4))

\* _reset_to_default()
reset_to_default(s) ==
    LET s1 == [s EXCEPT !.images = [k \in Slots |->
                            IF s.original_images[k] # None
                            THEN s.original_images[k] ELSE @[k]]]
        s2 == [WithDefaults(s1) EXCEPT !.rotation_scale = 0, !.rotation_label = 0]
        s3 == set_adjustment_scales(s2, AdjUnit, AdjUnit, AdjUnit)
        s4 == [s3 EXCEPT !.active_view = "none", !.status_var = "Restored to default"]
    IN  update_match_overlay(save_state(s4))

\* The live attributes bound to the objects of the top entry of h.
RestoredFrom(s, h) ==
    [s EXCEPT !.history = h,
              !.kv_offsets = h[Len(h)].kv_offsets,
              !.rotations = h[Len(h)].rotations,
              !.zoom_levels = h[Len(h)].zoom_levels,
              !.pan_offsets = h[Len(h)].pan_offsets,
              !.adjustment_values = h[Len(h)].adjustment_values,
              !.alpha = h[Len(h)].alpha,
              !.use_color_overlay = h[Len(h)].use_color_overlay,
              !.alias = Len(h)]

\* As undo_last_action, but with one entry left the state is set from that
\* entry before the refusal is reported.
undo_reapplies_baseline(s) ==
    IF Len(s.history) <= 1
    THEN [RestoredFrom(s, s.history) EXCEPT !.status_var = "Nothing to undo"]
    ELSE LET s1 == RestoredFrom(s, SubSeq(s.history, 1, Len(s.history) - 1))
             s2 == IF s.active_view = "ap"
                   THEN [s1 EXCEPT !.rotation_scale = ScaleShown(s1.rotations.ap),
                                   !.rotation_label = s1.rotations.ap]
                   ELSE s1
             s3 == show_adjustment_scales(s2, ViewOf(s.current_adjustment_image))
         IN  update_match_overlay([s3 EXCEPT !.status_var = "Undo successful"])

\* _undo_last_action()
undo_last_action(s) ==
    IF Len(s.history) <= 1
    THEN [s EXCEPT !.status_var = "Nothing to undo"]
    ELSE LET s1 == RestoredFrom(s, SubSeq(s.history, 1, Len(s.history) - 1))
             s2 == IF s.active_view = "ap"
                   THEN [s1 EXCEPT !.rotation_scale = ScaleShown(s1.rotations.ap),
                                   !.rotation_label = s1.rotations.ap]
                   ELSE s1
             s3 == show_adjustment_scales(s2, ViewOf(s.current_adjustment_image))
         IN  update_match_overlay([s3 EXCEPT !.status_var = "Undo successful"])

\* _select_image_for_adjustment(image_key, image_title)
select_image_for_adjustment(s, key) ==
    IF s.images[key] = None
    THEN [s EXCEPT !.status_var = "No image loaded"]
    ELSE [show_adjustment_scales([s EXCEPT !.current_adjustment_image = key],
                                 ViewOf(key))
             EXCEPT !.status_var = "Selected"]

\* As reset_adjustments, but the values of both views are set to 1.0.
reset_adjustments_both_views(s) ==
    LET cur == s.current_adjustment_image
        s1 == WriteDict(s, "adjustment_values", DefaultAdj)
        s2 == set_adjustment_scales(s1, AdjUnit, AdjUnit, AdjUnit)
        s3 == IF s.original_images[cur] # None
              THEN [s2 EXCEPT !.images[cur] = s.original_images[cur]]
              ELSE s2
    IN  [update_match_overlay(save_state(s3)) EXCEPT !.status_var = "Reset adjustments"]

\* _reset_adjustments()
reset_adjustments(s) ==
    LET cur == s.current_adjustment_image
        view == ViewOf(cur)
        s1 == WriteDict(s, "adjustment_values",
                        [s.adjustment_values EXCEPT !["brightness"][view] = AdjUnit,
                                                    !["contrast"][view] = AdjUnit,
                                                    !["sharpness"][view] = AdjUnit])
        s2 == set_adjustment_scales(s1, AdjUnit, AdjUnit, AdjUnit)
        s3 == IF s.original_images[cur] # None
              THEN [s2 EXCEPT !.images[cur] = s.original_images[cur]]
              ELSE s2
    IN  [update_match_overlay(save_state(s3)) EXCEPT !.status_var = "Reset adjustments"]

\* As FilterSource, but the raster is the slot's working raster.
FilterSourceWorking(s, target) == s.images[target]

\* src = self.original_images.get(target_key)
FilterSource(s, target) == s.original_images[target]

\* As apply_selected_filter, but a snapshot is pushed before anything is
\* looked at.
apply_selected_filter_saves_first(s, name) ==
    LET target == s.current_adjustment_image
        src == FilterSource(s, target)
    IN  IF name = "Select Filter"
        THEN [save_state(s) EXCEPT !.status_var = "Please select a filter"]
        ELSE IF src = None
        THEN [save_state(s) EXCEPT !.status_var = "Load a dataset first"]
        ELSE IF name \notin FilterNames
        THEN [save_state(s) EXCEPT !.status_var = "Filter error"]
        ELSE [update_match_overlay(save_state(
                 [s EXCEPT !.images[target] = ApplyRecipe(name, src)]))
                 EXCEPT !.status_var = "Applied filter"]

\* _apply_selected_filter(), name being the value of filter_var
apply_selected_filter(s, name) ==
    LET target == s.current_adjustment_image
        src == FilterSource(s, target)
    IN  IF name = "Select Filter"
        THEN [s EXCEPT !.status_var = "Please select a filter"]
        ELSE IF src = None
        THEN [s EXCEPT !.status_var = "Load a dataset first"]
        ELSE IF name \notin FilterNames
        THEN [s EXCEPT !.status_var = "Filter error"]
        ELSE [update_match_overlay(save_state(
                 [s EXCEPT !.images[target] = ApplyRecipe(name, src)]))
                 EXCEPT !.status_var = "Applied filter"]

\* As reset_to_initial_values, but the blend variables are left as they are.
reset_keeps_blend(s) ==
    [WithDefaults(s) EXCEPT !.alpha = s.alpha,
                            !.use_color_overlay = s.use_color_overlay,
                            !.rotation_scale = 0, !.rotation_label = 0,
                            !.active_view = "none"]

\* _reset_to_initial_values()
reset_to_initial_values(s) ==
    [WithDefaults(s) EXCEPT !.rotation_scale = 0, !.rotation_label = 0,
                            !.active_view = "none"]

\* As load_dataset, but the rasters are dropped before the directory is
\* looked for.
load_dataset_wipes_first(s, selection, exists, readable) ==
    IF selection = "Select Dataset"
    THEN s
    ELSE IF ~exists
    THEN [s EXCEPT !.images = [k \in Slots |-> None],
                   !.original_images = [k \in Slots |-> None],
                   !.status_var = "Dataset not found"]
    ELSE LET loaded == [k \in Slots |->
                           IF k \in readable THEN Decode(selection, k) ELSE None]
             s1 == [s EXCEPT !.images = loaded, !.original_images = loaded]
         IN  IF readable # {}
             THEN update_match_overlay(
                      [reset_to_initial_values(s1) EXCEPT !.status_var = "Loaded"])
             ELSE [s1 EXCEPT !.status_var = "No valid images found in dataset"]

\* _load_dataset(selection): exists says whether the dataset directory is
\* there, readable which slots have a file that decodes.
load_dataset(s, selection, exists, readable) ==
    IF selection = "Select Dataset"
    THEN s
    ELSE IF ~exists
    THEN [s EXCEPT !.status_var = "Dataset not found"]
    ELSE LET loaded == [k \in Slots |->
                           IF k \in readable THEN Decode(selection, k) ELSE None]
             s1 == [s EXCEPT !.images = loaded, !.original_images = loaded]
         IN  IF readable # {}
             THEN update_match_overlay(
                      [reset_to_initial_values(s1) EXCEPT !.status_var = "Loaded"])
             ELSE [s1 EXCEPT !.status_var = "No valid images found in dataset"]

\* The blend slider moved to a: the variable is written, then the command runs.
set_alpha(s, a) == update_match_overlay([s EXCEPT !.alpha = a])

\* The Color Overlay checkbutton clicked.
toggle_color_overlay(s) ==
    update_match_overlay([s EXCEPT !.use_color_overlay = ~@])

\* __init__: _init_state, _build_layout, _save_initial_state, _save_state,
\* _update_match_overlay.
constructed == update_match_overlay(save_state(init_state))

---------------------------------------------------------------------------
(* The events the interaction layer delivers, and the values they carry *)

Points == {<<10, 10>>, <<13, 12>>}
NudgeKeys == {<<-1, 0>>, <<1, 0>>, <<0, -1>>, <<0, 1>>}
Cursors == {<<0, 0>>, <<300, 200>>}
SliderAngles == {-90, 45}
AlphaValues == {25, 100}
AdjValues == {50, 150}
FilterChoices == {"Select Filter", "Low-Dose Boost", "Soft Tissue Enhance"}
Datasets == {"Pelvis"}
ReadableSets == {{}, {"kv_lat"}, {"drr_ap", "kv_ap"}, Slots}

Init ==
    /\ StartsAs(constructed)
    /\ nEvents = 0

\* One more user event is handled.
Tick ==
    /\ nEvents < MaxEvents
    /\ nEvents' = nEvents + 1

ActivateDrag == \E v \in Views, pt \in Points : Tick /\ Becomes(activate_drag(Cur, v, pt))
DragKv == \E v \in Views, pt \in Points : Tick /\ Becomes(drag_kv(Cur, v, pt))
NudgeKv == \E d \in NudgeKeys : Tick /\ Becomes(nudge_kv(Cur, d[1], d[2]))
Zoom == \E v \in Views, up \in BOOLEAN, c \in Cursors : Tick /\ Becomes(zoom(Cur, v, up, c[1], c[2]))
MouseScroll == \E v \in Views, up \in BOOLEAN : Tick /\ Becomes(mouse_scroll(Cur, v, up))
RotateActive == \E a \in SliderAngles : Tick /\ Becomes(rotate_active(Cur, a))
SetAlpha == \E a \in AlphaValues : Tick /\ Becomes(set_alpha(Cur, a))
ToggleColorOverlay == Tick /\ Becomes(toggle_color_overlay(Cur))
UndoLastAction == Tick /\ Becomes(undo_last_action(Cur))
ResetToDefault == Tick /\ Becomes(reset_to_default(Cur))
SelectImageForAdjustment == \E k \in Slots : Tick /\ Becomes(select_image_for_adjustment(Cur, k))
AdjustImage == \E k \in Kinds, x \in AdjValues : Tick /\ Becomes(adjust_image(Cur, k, x))
ResetAdjustments == Tick /\ Becomes(reset_adjustments(Cur))
ApplySelectedFilter == \E f \in FilterChoices : Tick /\ Becomes(apply_selected_filter(Cur, f))
LoadDataset ==
    \E d \in Datasets, e \in BOOLEAN, r \in ReadableSets :
        Tick /\ Becomes(load_dataset(Cur, d, e, r))

Next ==
    \/ ActivateDrag
    \/ DragKv
    \/ NudgeKv
    \/ Zoom
    \/ MouseScroll
    \/ RotateActive
    \/ SetAlpha
    \/ ToggleColorOverlay
    \/ UndoLastAction
    \/ ResetToDefault
    \/ SelectImageForAdjustment
    \/ AdjustImage
    \/ ResetAdjustments
    \/ ApplySelectedFilter
    \/ LoadDataset

Spec == Init /\ [][Next]_vars

---------------------------------------------------------------------------
(* One long session, for what only shows after many events (the history at *)
(* its capacity, the zoom at its limits): a dataset with four images is    *)
(* loaded, the wheel is turned up over AP with Ctrl held ZoomInTicks       *)
(* times, then down over LAT ZoomOutTicks times, the Down key is pressed   *)
(* NudgeTicks times and Ctrl-Z UndoTicks times.  The cursor is at the      *)
(* canvas origin throughout.                                               *)

SessionLength == 1 + ZoomInTicks + ZoomOutTicks + NudgeTicks + UndoTicks

\* The k-th event of the session.
SessionEvent(k) ==
    IF k = 1 THEN "load"
    ELSE IF k <= 1 + ZoomInTicks THEN "zoom_in"
    ELSE IF k <= 1 + ZoomInTicks + ZoomOutTicks THEN "zoom_out"
    ELSE IF k <= 1 + ZoomInTicks + ZoomOutTicks + NudgeTicks THEN "nudge"
    ELSE IF k <= SessionLength THEN "undo"
    ELSE "end"

\* The handler the k-th event runs.
SessionHandle(s, k) ==
    CASE SessionEvent(k) = "load" -> load_dataset(s, "Pelvis", TRUE, Slots)
      [] SessionEvent(k) = "zoom_in" -> zoom(s, "ap", TRUE, 0, 0)
      [] SessionEvent(k) = "zoom_out" -> zoom(s, "lat", FALSE, 0, 0)
      [] SessionEvent(k) = "nudge" -> nudge_kv(s, 0, 1)
      [] SessionEvent(k) = "undo" -> undo_last_action(s)
      [] OTHER -> s

SessionTick(e) ==
    /\ SessionEvent(nEvents + 1) = e
    /\ nEvents' = nEvents + 1

S_LoadDataset == SessionTick("load") /\ Becomes(SessionHandle(Cur, nEvents + 1))
S_ZoomIn == SessionTick("zoom_in") /\ Becomes(SessionHandle(Cur, nEvents + 1))
S_ZoomOut == SessionTick("zoom_out") /\ Becomes(SessionHandle(Cur, nEvents + 1))
S_NudgeKv == SessionTick("nudge") /\ Becomes(SessionHandle(Cur, nEvents + 1))
S_UndoLastAction == SessionTick("undo") /\ Becomes(SessionHandle(Cur, nEvents + 1))

SessionNext ==
    \/ S_LoadDataset
    \/ S_ZoomIn
    \/ S_ZoomOut
    \/ S_NudgeKv
    \/ S_UndoLastAction

SpecSession == Init /\ [][SessionNext]_vars

---------------------------------------------------------------------------
(* Properties *)

\* Everything but the event counter.
objvars == <<images, original_images, kv_offsets, rotations, zoom_levels, pan_offsets,
             adjustment_values, alpha, use_color_overlay, history, alias, drag_start,
             active_view, current_adjustment_image, rotation_scale, rotation_label,
             status_var, tk_images>>

\* C1: in every reachable state the vertical KV offset of AP equals that of LAT.
C1_VerticalCoupling == kv_offsets.ap_y = kv_offsets.lat_y

\* A drag on AP by (3, 2) has moved AP's x alone and both y.
C1_Witness ==
    /\ kv_offsets.ap_x = 3
    /\ kv_offsets.lat_x = 0
    /\ kv_offsets.ap_y = 2
    /\ kv_offsets.lat_y = 2

\* The source coordinate (in pixels of the raster at zoom 1.0) that the
\* compositor shows at display coordinate c on one axis: the DRR, scaled from
\* base to size pixels, is pasted at -int(pan).
SourceShown(c, pan, base, size) == Frac((c + IntOf(pan)) * base, size)

\* |p - q| < 1 for fractions p, q.
WithinOnePixel(p, q) == Abs(p[1] * q[2] - q[1] * p[2]) < p[2] * q[2]

\* The point of a view's DRR shown at display point c moves by less than one
\* source pixel on each axis from state s to state t.
Anchored(s, t, v, c) ==
    /\ WithinOnePixel(
           SourceShown(c[1], s.pan_offsets[v][1], DISPLAY_W,
                       ScaledSize(s.zoom_levels[v])[1]),
           SourceShown(c[1], t.pan_offsets[v][1], DISPLAY_W,
                       ScaledSize(t.zoom_levels[v])[1]))
    /\ WithinOnePixel(
           SourceShown(c[2], s.pan_offsets[v][2], DISPLAY_H,
                       ScaledSize(s.zoom_levels[v])[2]),
           SourceShown(c[2], t.pan_offsets[v][2], DISPLAY_H,
                       ScaledSize(t.zoom_levels[v])[2]))

\* A step is the zoom request (v, up, c), and the request changes the zoom.
ZoomActs(v, up, c) ==
    /\ Becomes(zoom(Cur, v, up, c[1], c[2]))
    /\ zoom_levels'[v] # zoom_levels[v]

\* C2: a zoom that acts keeps under the cursor the source point that was
\* there, within one pixel.
C2_CursorAnchored ==
    [][\A v \in Views, up \in BOOLEAN, c \in Cursors :
          ZoomActs(v, up, c) => Anchored(Cur, Cur', v, c)]_vars

\* C3: a zoom request on a complete view whose clamped target z1 differs
\* from the zoom z0 sets the zoom to z1 = clamp(z0 +- 0.1, 0.2, 5.0), adds
\* c * (1 - z1 / z0) to the pan on each axis, and pushes exactly one history
\* entry, which holds the new state.
C3_ZoomStep ==
    [][\A v \in Views, up \in BOOLEAN, c \in Cursors :
          LET z0 == zoom_levels[v]
              z1 == Clamp(IF up THEN z0 + 1 ELSE z0 - 1, 2, 50)
              top == history'[Len(history')]
          IN  (/\ Becomes(zoom(Cur, v, up, c[1], c[2]))
               /\ images[DrrKey(v)] # None
               /\ images[KvKey(v)] # None
               /\ z1 # z0)
              => /\ zoom_levels'[v] = z1
                 /\ \A i \in {1, 2} :
                       pan_offsets'[v][i][1] * pan_offsets[v][i][2] * z0
                         = (pan_offsets[v][i][1] * z0
                              + c[i] * (z0 - z1) * pan_offsets[v][i][2])
                           * pan_offsets'[v][i][2]
                 /\ Len(history') = Len(history) + 1
                 /\ top.zoom_levels = zoom_levels'
                 /\ top.pan_offsets = pan_offsets'
                 /\ top.kv_offsets = kv_offsets'
                 /\ top.rotations = rotations'
                 /\ top.adjustment_values = adjustment_values'
                 /\ top.alpha = alpha'
                 /\ top.use_color_overlay = use_color_overlay']_vars

\* AP has been zoomed from 1.0 to 1.2 in two steps with the cursor at the
\* canvas centre: the second step started from a pan that was not zero.
C3_Witness ==
    /\ zoom_levels.ap = 12
    /\ pan_offsets.ap = << <<-630, 11>>, <<-420, 11>> >>
    /\ Len(history) = 3

\* C4: the zoom of both views stays within [0.2, 5.0], and a zoom-in request
\* at 5.0 or a zoom-out request at 0.2 changes nothing and pushes nothing.
C4_ZoomClamp ==
    /\ [](\A v \in Views : zoom_levels[v] >= 2 /\ zoom_levels[v] <= 50)
    /\ [][(\/ S_ZoomIn /\ zoom_levels.ap = 50
           \/ S_ZoomOut /\ zoom_levels.lat = 2)
          => UNCHANGED objvars]_vars

\* AP stands at 5.0 and LAT at 0.2 after more requests than steps between
\* the default and the limits: the last request of each run was refused.
C4_Witness ==
    /\ zoom_levels.ap = 50
    /\ zoom_levels.lat = 2
    /\ nEvents = 1 + ZoomInTicks + ZoomOutTicks

\* A step of the session is one request that pushes one history entry: a
\* zoom below the limit it moves towards, or a nudge.
SessionPush ==
    \/ S_ZoomIn /\ zoom_levels.ap < ZoomMax
    \/ S_ZoomOut /\ zoom_levels.lat > ZoomMin
    \/ S_NudgeKv

\* C5: the history always holds between 1 and 20 entries, and a push onto a
\* history of 20 removes the entry at index 0 alone and keeps the others in
\* order below the new entry.
C5_HistoryCapacity ==
    /\ [](Len(history) >= 1 /\ Len(history) <= HistoryMax)
    /\ [][(SessionPush /\ Len(history) = HistoryMax)
          => history' = Append(Tail(history), Snapshot(Cur'))]_vars

\* 24 zoom steps have been pushed onto the baseline: the history is full and
\* its oldest entry is the one pushed at zoom 1.5.
C5_Witness ==
    /\ Len(history) = HistoryMax
    /\ zoom_levels.ap = 34
    /\ history[1].zoom_levels.ap = 15
    /\ history[HistoryMax].zoom_levels.ap = 34

\* The states the handlers of events lo..hi of the session lead through,
\* starting in state s.
RECURSIVE SessionTrace(_, _, _)
SessionTrace(s, lo, hi) ==
    IF lo > hi THEN <<>>
    ELSE IF lo = hi THEN <<SessionHandle(s, lo)>>
    ELSE LET mid == (lo + hi) \div 2
             first == SessionTrace(s, lo, mid)
         IN  first \o SessionTrace(first[Len(first)], mid + 1, hi)

\* The session replayed from construction: entry k + 1 is the state after
\* k events.
SessionStates(n) == <<constructed>> \o SessionTrace(constructed, 1, n)

\* Every snapshot pushed from construction through the first n events of the
\* session, the baseline first: a zoom below its limit and a nudge push one.
SessionPushed(n) ==
    LET tr == SessionStates(n)
        P == {k \in 1..n :
                 \/ SessionEvent(k) = "zoom_in" /\ tr[k].zoom_levels.ap < ZoomMax
                 \/ SessionEvent(k) = "zoom_out" /\ tr[k].zoom_levels.lat > ZoomMin
                 \/ SessionEvent(k) = "nudge"}
        kth(j) == CHOOSE k \in P : Cardinality({i \in P : i <= k}) = j
    IN  <<Snapshot(constructed)>>
          \o [j \in 1..Cardinality(P) |-> Snapshot(tr[kth(j) + 1])]

\* No undo has been requested yet, and more than 20 operations have pushed.
ManyPushesNoUndo ==
    /\ nEvents <= 1 + ZoomInTicks + ZoomOutTicks + NudgeTicks
    /\ Len(SessionPushed(nEvents)) - 1 > HistoryMax

\* C6 as stated: after more than 20 pushing operations and no undo the
\* history holds exactly 20 entries and the oldest is the 21st-from-last
\* snapshot pushed.
C6_OldestIs21stFromLast ==
    ManyPushesNoUndo
    => LET pushed == SessionPushed(nEvents)
       IN  /\ Len(history) = HistoryMax
           /\ history[1] = pushed[Len(pushed) - HistoryMax]

\* C6: after more than 20 pushing operations and no undo the history holds
\* exactly 20 entries and the oldest is the 20th-from-last snapshot pushed:
\* the history is the last 20 snapshots.
C6_OldestIs20thFromLast ==
    ManyPushesNoUndo
    => LET pushed == SessionPushed(nEvents)
       IN  /\ Len(history) = HistoryMax
           /\ history[1] = pushed[Len(pushed) - HistoryMax + 1]
           /\ history = SubSeq(pushed, Len(pushed) - HistoryMax + 1, Len(pushed))

\* 30 zoom steps have been pushed: the oldest entry left is the 11th step's.
C6_Witness ==
    /\ nEvents = 31
    /\ Len(history) = HistoryMax
    /\ zoom_levels.ap = 40
    /\ history[1].zoom_levels.ap = 21

\* C7: an undo request with one entry in the history sets the status to
\* 'Nothing to undo' and changes neither the history nor any of the live
\* values nor any raster.
C7_UndoFloor ==
    [][(UndoLastAction /\ Len(history) = 1)
       => /\ status_var' = "Nothing to undo"
          /\ UNCHANGED <<history, kv_offsets, rotations, zoom_levels, pan_offsets,
                         adjustment_values, alpha, use_color_overlay, images,
                         original_images, tk_images>>]_vars

\* The blend slider was moved and a dataset loaded, neither of which pushes,
\* and the undo request that followed was refused with everything kept.
C7_Witness ==
    /\ status_var = "Nothing to undo"
    /\ Len(history) = 1
    /\ alpha = 25
    /\ images.drr_ap # None

\* C8: an undo request with more than one entry in the history removes the
\* top entry alone, and afterwards the live values are those of the new top
\* entry.
C8_UndoStep ==
    [][(UndoLastAction /\ Len(history) > 1)
       => /\ Len(history') = Len(history) - 1
          /\ \A i \in 1..(Len(history) - 1) : history'[i] = history[i]
          /\ Snapshot(Cur') = history'[Len(history')]]_vars

\* C9: an entry that stays in the history keeps its contents. A step that
\* is not an undo keeps every entry, an undo every entry but the top one;
\* the step evicts nothing.
C9_EntriesImmutable ==
    [][\A i \in 1..Len(history) :
          (/\ Len(history') >= Len(history)
           /\ Len(history') < HistoryMax
           /\ (i < Len(history) \/ ~UndoLastAction))
          => history'[i] = history[i]]_vars

\* The recorded values of state t are the live ones.
SameRecorded(t) == Snapshot(t) = Snapshot(Cur)

\* If the mutator that leads from the current state to t has pushed, an undo
\* request in t restores the recorded values of the current state.
UndoReverses(t) ==
    Len(t.history) > Len(history) => SameRecorded(undo_last_action(t))

\* C10: in every reachable state, one pushing mutator (drag, nudge, zoom,
\* rotation, adjustment, reset to default) followed by undo gives back the
\* offsets, rotations, zooms, pans, adjustment values, alpha and colour
\* overlay of that state.
C10_UndoReversesLast ==
    /\ \A v \in Views, pt \in Points : UndoReverses(drag_kv(Cur, v, pt))
    /\ \A d \in NudgeKeys : UndoReverses(nudge_kv(Cur, d[1], d[2]))
    /\ \A v \in Views, up \in BOOLEAN, c \in Cursors :
          UndoReverses(zoom(Cur, v, up, c[1], c[2]))
    /\ \A a \in SliderAngles : UndoReverses(rotate_active(Cur, a))
    /\ \A v \in Views, up \in BOOLEAN : UndoReverses(mouse_scroll(Cur, v, up))
    /\ \A k \in Kinds, x \in AdjValues : UndoReverses(adjust_image(Cur, k, x))
    /\ UndoReverses(reset_to_default(Cur))

\* C11: whenever a step changes a recorded value (offsets, rotations, zooms,
\* pans, adjustment values, alpha, colour overlay), the top history entry
\* afterwards equals the recorded values of the new state.
C11_MutationsSnapshotted ==
    [][Snapshot(Cur') # Snapshot(Cur)
       => history'[Len(history')] = Snapshot(Cur')]_vars

\* C12: a change of the blend alpha, or a toggle of the colour overlay,
\* pushes one history entry holding the new state and redraws both views.
C12_BlendRecorded ==
    [][(\/ \E a \in AlphaValues : a # alpha /\ Tick /\ Becomes(set_alpha(Cur, a))
        \/ ToggleColorOverlay)
       => /\ Len(history') = Len(history) + 1
          /\ history'[Len(history')] = Snapshot(Cur')
          /\ \A v \in Views :
                (images[DrrKey(v)] # None /\ images[KvKey(v)] # None)
                => tk_images'[v] = <<Composite(Cur', v)>>]_vars

\* C13: LAT's stored rotation is always 0; the compositor rotates no DRR,
\* rotates nothing on LAT, and rotates AP's KV by AP's stored rotation. The
\* same holds of what the two view canvases show.
C13_RotationApKvOnly ==
    /\ rotations.lat = 0
    /\ \A v \in Views : Composite(Cur, v).drr_rotation = 0
    /\ Composite(Cur, "lat").kv_rotation = 0
    /\ Composite(Cur, "ap").kv_rotation = rotations.ap
    /\ \A v \in Views :
          tk_images[v] # None
          => /\ tk_images[v][1].drr_rotation = 0
             /\ v = "lat" => tk_images[v][1].kv_rotation = 0

\* AP is rotated and both views are drawn: AP's KV is shown rotated, LAT's
\* is not.
C13_Witness ==
    /\ rotations.ap # 0
    /\ tk_images.ap # None
    /\ tk_images.lat # None
    /\ tk_images.ap[1].kv_rotation = rotations.ap
    /\ tk_images.lat[1].kv_rotation = 0

\* C14: while LAT is the active view, neither a move of the rotation slider
\* nor a plain wheel tick changes AP's stored rotation.
C14_RotationScope ==
    [][(active_view = "lat" /\ (RotateActive \/ MouseScroll))
       => rotations'.ap = rotations.ap]_vars

\* C15: in every reachable state, a pointer-down on LAT shows 0 on the
\* rotation slider and label and leaves the rotations and the history as
\* they are, and a pointer-down on AP after it shows AP's stored rotation on
\* the slider and the label.
C15_ActivationKeepsRotation ==
    \A p \in Points, q \in Points :
        LET t == activate_drag(Cur, "lat", p)
            u == activate_drag(t, "ap", q)
        IN  /\ t.rotation_scale = 0
            /\ t.rotation_label = 0
            /\ t.rotations = rotations
            /\ t.history = history
            /\ u.rotations = rotations
            /\ u.history = history
            /\ u.rotation_label = rotations.ap
            /\ u.rotation_scale = rotations.ap

\* The view that is not v.
OtherView(v) == IF v = "ap" THEN "lat" ELSE "ap"

\* The offsets change by dx on v's x alone and by dy on both y.
MovesOnly(v, dx, dy) ==
    /\ kv_offsets'[XKey(v)] = kv_offsets[XKey(v)] + dx
    /\ kv_offsets'[XKey(OtherView(v))] = kv_offsets[XKey(OtherView(v))]
    /\ kv_offsets'.ap_y = kv_offsets.ap_y + dy
    /\ kv_offsets'.lat_y = kv_offsets.lat_y + dy

\* C16: a drag on view v by (dx, dy) that acts adds dx to v's x-offset
\* alone and dy to both y-offsets; a nudge by (dx, dy) does so with v the
\* active view.
C16_HorizontalIndependence ==
    [][/\ \A v \in Views, pt \in Points :
             (/\ Tick
              /\ Becomes(drag_kv(Cur, v, pt))
              /\ drag_start # None
              /\ images[KvKey(v)] # None)
             => MovesOnly(v, pt[1] - drag_start[1], pt[2] - drag_start[2])
       /\ \A d \in NudgeKeys :
             (/\ Tick
              /\ Becomes(nudge_kv(Cur, d[1], d[2]))
              /\ active_view # "none")
             => MovesOnly(active_view, d[1], d[2])]_vars

\* With LAT active, one nudge to the right and one down: LAT's x has moved,
\* AP's has not, both y have.
C16_Witness ==
    /\ active_view = "lat"
    /\ kv_offsets = [ap_x |-> 0, ap_y |-> 1, lat_x |-> 1, lat_y |-> 1]

\* C17: after a load that reads at least one image the history holds one
\* entry, the snapshot of the state after the load, and an undo request is
\* refused.
C17_LoadResetsHistory ==
    [][\A d \in Datasets, r \in ReadableSets :
          (r # {} /\ Tick /\ Becomes(load_dataset(Cur, d, TRUE, r)))
          => /\ history' = <<Snapshot(Cur')>>
             /\ undo_last_action(Cur').status_var = "Nothing to undo"]_vars

\* C18: a load that reads the slots r, r not empty, leaves each slot of r
\* with a working raster equal to its original and every other slot empty,
\* sets every recorded value to its default and no view active; when all
\* four are read the AP canvas shows the 0.5 blend of DRR-AP and KV-AP at
\* zoom 1.0, offset 0 and rotation 0.
C18_LoadResetsState ==
    [][\A d \in Datasets, r \in ReadableSets :
          (r # {} /\ Tick /\ Becomes(load_dataset(Cur, d, TRUE, r)))
          => /\ \A k \in Slots :
                   IF k \in r
                   THEN images'[k] # None /\ images'[k] = original_images'[k]
                   ELSE images'[k] = None /\ original_images'[k] = None
             /\ kv_offsets' = [ap_x |-> 0, ap_y |-> 0, lat_x |-> 0, lat_y |-> 0]
             /\ rotations' = [ap |-> 0, lat |-> 0]
             /\ zoom_levels' = [ap |-> 10, lat |-> 10]
             /\ pan_offsets' = [ap |-> << <<0, 1>>, <<0, 1>> >>,
                                lat |-> << <<0, 1>>, <<0, 1>> >>]
             /\ \A k \in Kinds, v \in Views : adjustment_values'[k][v] = 100
             /\ alpha' = 50
             /\ use_color_overlay' = FALSE
             /\ active_view' = "none"
             /\ r = Slots
                => tk_images'.ap =
                     <<[drr |-> original_images'.drr_ap,
                        kv |-> original_images'.kv_ap,
                        size |-> <<600, 400>>,
                        drr_rotation |-> 0, kv_rotation |-> 0,
                        drr_at |-> <<0, 0>>, kv_at |-> <<0, 0>>,
                        merge |-> "blend", blend_alpha |-> 50]>>]_vars

\* A dataset with files for the AP slots alone was loaded after a nudge
\* down: the offsets are back at 0 and LAT's slots are empty.
C18_Witness ==
    /\ status_var = "Loaded"
    /\ images.drr_ap # None
    /\ images.kv_lat = None
    /\ Len(history) = 2
    /\ history[2].kv_offsets.ap_y = 1
    /\ kv_offsets.ap_y = 0

\* The values a failed load is said to keep.
LoadKeeps ==
    UNCHANGED <<images, original_images, kv_offsets, rotations, zoom_levels,
                pan_offsets, adjustment_values, history>>

\* C19: a load from a directory that exists but has no image that can be
\* read reports it and keeps the rasters, originals, transform state,
\* adjustment values and history.
C19_NoValidImagesKeepsState ==
    [][\A d \in Datasets :
          (Tick /\ Becomes(load_dataset(Cur, d, TRUE, {})))
          => /\ status_var' = "No valid images found in dataset"
             /\ LoadKeeps]_vars

\* C20: a load from a directory that does not exist reports it and keeps
\* the rasters, originals, transform state, adjustment values and history.
C20_DatasetNotFoundKeepsState ==
    [][\A d \in Datasets, r \in ReadableSets :
          (Tick /\ Becomes(load_dataset(Cur, d, FALSE, r)))
          => /\ status_var' = "Dataset not found"
             /\ LoadKeeps]_vars

\* A dataset was loaded and nudged, and the next one was not found: the
\* rasters and the offsets are still there.
C20_Witness ==
    /\ status_var = "Dataset not found"
    /\ images.drr_ap # None
    /\ kv_offsets.ap_y # 0

\* The rasters, recorded values and history of state t are the current ones.
NothingButStatus(t) ==
    /\ t.images = images
    /\ t.original_images = original_images
    /\ Snapshot(t) = Snapshot(Cur)
    /\ t.history = history

\* C21: a filter request with a name that is not one of the six recipes, or
\* with a target slot that has no original, changes no raster, no recorded
\* value and no history entry, and ends with a status (no exception leaves
\* the handler). The menu offers one such name, 'Select Filter'; a name the
\* menu does not offer is refused in every reachable state as well.
C21_FilterFailureKeepsState ==
    /\ [][\A f \in FilterChoices :
             (/\ Tick
              /\ Becomes(apply_selected_filter(Cur, f))
              /\ (f \notin FilterNames
                    \/ original_images[current_adjustment_image] = None))
             => /\ NothingButStatus(Cur')
                /\ status_var' \in {"Please select a filter", "Load a dataset first"}]_vars
    /\ [](LET t == apply_selected_filter(Cur, "No Such Filter")
          IN  /\ NothingButStatus(t)
              /\ t.status_var \in {"Load a dataset first", "Filter error"})

\* KV LAT alone was loaded and the offsets nudged; the filter request that
\* followed found no original in the target slot DRR AP.
C21_Witness ==
    /\ status_var = "Load a dataset first"
    /\ images.kv_lat # None
    /\ original_images.drr_ap = None
    /\ kv_offsets.ap_y # 0

\* C22: a filter request with one of the recipes on a target slot T that has
\* an original makes T's working raster the recipe applied to T's original,
\* whatever T's working raster was, and leaves the other slots' working
\* rasters alone; the same request again gives the same working raster.
C22_FilterFromOriginal ==
    [][\A f \in FilterChoices \cap FilterNames :
          LET T == current_adjustment_image
          IN  (/\ Tick
               /\ Becomes(apply_selected_filter(Cur, f))
               /\ original_images[T] # None)
              => /\ images'[T] = ApplyRecipe(f, original_images[T])
                 /\ \A k \in Slots \ {T} : images'[k] = images[k]
                 /\ apply_selected_filter(Cur', f).images = images']_vars

\* DRR AP was brightened to 1.5 and then filtered: its working raster is the
\* recipe applied to the original, not to the brightened raster.
C22_Witness ==
    /\ status_var = "Applied filter"
    /\ adjustment_values.brightness.ap = 150
    /\ original_images.drr_ap # None
    /\ images.drr_ap = ApplyRecipe("Low-Dose Boost", original_images.drr_ap)

\* C23: an adjustment request (kind, value) on a target slot T that has an
\* original stores the value for T's view and makes T's working raster
\* sharpness(contrast(brightness(original, b), c), s) with b, c, s the
\* view's three values after the store.
C23_AdjustmentChain ==
    [][\A kind \in Kinds, x \in AdjValues :
          LET T == current_adjustment_image
              v == ViewOf(T)
          IN  (/\ Tick
               /\ Becomes(adjust_image(Cur, kind, x))
               /\ original_images[T] # None)
              => /\ adjustment_values'[kind][v] = x
                 /\ \A k \in Kinds \ {kind} :
                       adjustment_values'[k][v] = adjustment_values[k][v]
                 /\ images'[T] =
                      Enhance("sharpness", adjustment_values'.sharpness[v],
                        Enhance("contrast", adjustment_values'.contrast[v],
                          Enhance("brightness", adjustment_values'.brightness[v],
                                  original_images[T])))]_vars

\* Contrast 0.5 was set first and brightness 1.5 after it: the working
\* raster is still brightness first, contrast second.
C23_Witness ==
    /\ original_images.drr_ap # None
    /\ status_var = "Adjusted brightness"
    /\ images.drr_ap =
         <<"contrast", 50, <<"brightness", 150, original_images.drr_ap>> >>

\* A reset of the adjustments in state b sets the three values of the
\* target's view to 1.0, keeps the other view's, and makes the target's
\* working raster its original.
ResetsTarget(b) ==
    LET r == reset_adjustments(b)
        T == b.current_adjustment_image
        v == ViewOf(T)
        o == IF v = "ap" THEN "lat" ELSE "ap"
    IN  /\ r.current_adjustment_image = T
        /\ r.original_images = b.original_images
        /\ r.images[T] = b.original_images[T]
        /\ \A k \in Kinds :
              /\ r.adjustment_values[k][v] = AdjUnit
              /\ r.adjustment_values[k][o] = b.adjustment_values[k][o]

\* C24: resetAdjustments does so in every reachable state, and in every
\* state reached from one by an adjustment of the brightness followed by the
\* selection of a slot (so that the other view's values are not the
\* defaults).
C24_ResetAdjustments ==
    /\ ResetsTarget(Cur)
    /\ \A k \in Slots, x \in AdjValues :
          ResetsTarget(select_image_for_adjustment(
                           adjust_image(Cur, "brightness", x), k))

\* DRR AP was loaded and brightened to 1.5, and the reset that followed put
\* the original back and the value at 1.0.
C24_Witness ==
    /\ status_var = "Reset adjustments"
    /\ original_images.drr_ap # None
    /\ images.drr_ap = original_images.drr_ap
    /\ history[2].adjustment_values.brightness.ap = 150
    /\ adjustment_values.brightness.ap = 100

\* C25: the selection of a loaded slot as target sets the target and
\* changes no adjustment value, no working raster, no transform value and no
\* history entry.
C25_SelectChangesTargetOnly ==
    [][\A k \in Slots :
          (/\ Tick
           /\ Becomes(select_image_for_adjustment(Cur, k))
           /\ images[k] # None)
          => /\ current_adjustment_image' = k
             /\ UNCHANGED <<adjustment_values, images, kv_offsets, rotations,
                            zoom_levels, pan_offsets, history>>]_vars

\* C26: resetToDefault makes the working raster of every slot that has an
\* original equal to that original and sets offsets, rotations, zooms, pans,
\* adjustment values, alpha and colour overlay to their defaults.
C26_ResetToDefaultRestores ==
    [][ResetToDefault
       => /\ \A k \in Slots :
                original_images[k] # None => images'[k] = original_images[k]
          /\ original_images' = original_images
          /\ kv_offsets' = [ap_x |-> 0, ap_y |-> 0, lat_x |-> 0, lat_y |-> 0]
          /\ rotations' = [ap |-> 0, lat |-> 0]
          /\ zoom_levels' = [ap |-> 10, lat |-> 10]
          /\ pan_offsets' = [ap |-> << <<0, 1>>, <<0, 1>> >>,
                             lat |-> << <<0, 1>>, <<0, 1>> >>]
          /\ \A k \in Kinds, v \in Views : adjustment_values'[k][v] = 100
          /\ alpha' = 50
          /\ use_color_overlay' = FALSE]_vars

\* DRR AP was loaded and brightened to 1.5, and resetToDefault put the
\* original back and the brightness at 1.0.
C26_Witness ==
    /\ status_var = "Restored to default"
    /\ original_images.drr_ap # None
    /\ history[2].adjustment_values.brightness.ap = 150
    /\ images.drr_ap = original_images.drr_ap
    /\ adjustment_values.brightness.ap = 100
    /\ Len(history) = 6

\* C27: in every reachable state a recompute changes no raster, no recorded
\* value and no history entry, and a second recompute right after it shows
\* what the first one showed.
C27_CompositorPure ==
    LET t == update_match_overlay(Cur)
    IN  /\ NothingButStatus(t)
        /\ t.status_var = status_var
        /\ t.active_view = active_view
        /\ t.current_adjustment_image = current_adjustment_image
        /\ update_match_overlay(t).tk_images = t.tk_images

\* AP is complete and its KV has been moved: a recompute has something to
\* draw.
C27_Witness ==
    /\ images.drr_ap # None
    /\ images.kv_ap # None
    /\ kv_offsets.ap_x = 3
    /\ tk_images.ap = <<Composite(Cur, "ap")>>

\* Both rasters of view v are loaded.
ViewComplete(v) == images[DrrKey(v)] # None /\ images[KvKey(v)] # None

\* C28: in every reachable state a recompute leaves the canvas of a view
\* that lacks its DRR or its KV showing what it showed, and draws the
\* composite of a view that has both.
C28_SkipsIncompleteViews ==
    \A v \in Views :
        LET shown == update_match_overlay(Cur).tk_images[v]
        IN  IF ViewComplete(v)
            THEN shown # None /\ shown[1].drr = images[DrrKey(v)]
                              /\ shown[1].kv = images[KvKey(v)]
            ELSE shown = tk_images[v]

\* After a load of all four rasters, a load of AP's two alone: LAT is not
\* complete and its canvas still shows the composite of the first dataset,
\* while AP has been drawn again.
C28_Witness ==
    /\ images.drr_lat = None
    /\ tk_images.lat # None
    /\ ViewComplete("ap")
    /\ tk_images.ap = <<Composite(Cur, "ap")>>

\* t is the integer part of the fraction p (the fractional part is dropped,
\* towards zero).
IntegerPartOf(t, p) ==
    /\ p[1] >= 0 => t * p[2] <= p[1] /\ p[1] < (t + 1) * p[2]
    /\ p[1] < 0 => (t - 1) * p[2] < p[1] /\ p[1] <= t * p[2]

\* What a recompute shows on a complete view is built from the view's two
\* working rasters scaled to int(600 z) x int(400 z), merged by false colour
\* whatever alpha is when the colour overlay is on and blended with weight
\* alpha on the KV otherwise.
CompositeOf(c, v) ==
    /\ c.drr = images[DrrKey(v)]
    /\ c.kv = images[KvKey(v)]
    /\ c.size = <<(600 * zoom_levels[v]) \div 10, (400 * zoom_levels[v]) \div 10>>
    /\ IF use_color_overlay
       THEN c.merge = "color" /\ c.blend_alpha = 0
       ELSE c.merge = "blend" /\ c.blend_alpha = alpha

C30_UndoKeepsRasters ==
    [][(UndoLastAction /\ Len(history) > 1)
       => /\ UNCHANGED <<images, original_images, active_view,
                         current_adjustment_image>>
          /\ Len(history') = Len(history) - 1]_vars

\* C31: a step that changes the original raster of a slot is a dataset load,
\* and every original is the raster decoded from a dataset's file for its
\* slot.
C31_OriginalsImmutable ==
    /\ [][original_images' # original_images => LoadDataset]_vars
    /\ [](\A k \in Slots :
             \/ original_images[k] = None
             \/ \E d \in Datasets : original_images[k] = Decode(d, k))

\* DRR AP was loaded, brightened and filtered: its working raster is the
\* filter's, its original the decoded file.
C31_Witness ==
    /\ original_images.drr_ap = Decode("Pelvis", "drr_ap")
    /\ images.drr_ap = ApplyRecipe("Soft Tissue Enhance", Decode("Pelvis", "drr_ap"))
    /\ history[2].adjustment_values.contrast.ap = 50
    /\ Len(history) = 3

RECURSIVE UndoTimes(_, _)
\* The state after n undo requests in a row from state s.
UndoTimes(s, n) ==
    IF n = 0 THEN s ELSE UndoTimes(undo_last_action(s), n - 1)

\* C32: in every reachable state the history has an entry and keeps one
\* through undo requests, and at most 19 undo requests in a row leave the
\* history with its baseline entry alone, where the next one is refused.
C32_UndoBottomsOut ==
    /\ \A n \in 0..20 : Len(UndoTimes(Cur, n).history) >= 1
    /\ \E n \in 0..19 :
          /\ Len(UndoTimes(Cur, n).history) = 1
          /\ UndoTimes(Cur, n + 1).status_var = "Nothing to undo"

\* C33: in every reachable state with LAT the active view, the rotation
\* slider and the rotation label show 0.
C33_LatShowsZeroRotation ==
    active_view = "lat" => rotation_scale = 0 /\ rotation_label = 0

\* A push on a history of length n leaves it one longer, or at the capacity.
LengthAfterPush(n) == IF n < HistoryMax THEN n + 1 ELSE HistoryMax

\* The step pushed one entry, the snapshot of the state it led to.
PushedOne ==
    /\ Len(history') = LengthAfterPush(Len(history))
    /\ history'[Len(history')] = Snapshot(Cur')

C35_NudgeWithoutView ==
    [][\A d \in NudgeKeys :
          (Tick /\ Becomes(nudge_kv(Cur, d[1], d[2])) /\ active_view = "none")
          => /\ kv_offsets'.ap_x = kv_offsets.ap_x
             /\ kv_offsets'.lat_x = kv_offsets.lat_x
             /\ kv_offsets'.ap_y = kv_offsets.ap_y + d[2]
             /\ kv_offsets'.lat_y = kv_offsets.lat_y + d[2]
             /\ PushedOne]_vars

\* No view was activated; a horizontal nudge pushed an entry equal to the
\* baseline, and the Down key moved both views by one pixel.
C35_Witness ==
    /\ active_view = "none"
    /\ \A k \in Slots : images[k] = None
    /\ Len(history) = 3
    /\ history[2] = history[1]
    /\ kv_offsets = [ap_x |-> 0, ap_y |-> 1, lat_x |-> 0, lat_y |-> 1]

\* The drag to pt on view v acts in state s.
DragActs(s, v) == s.drag_start # None /\ s.images[KvKey(v)] # None

\* C36: a drag event on a view with a recorded drag start and the view's KV
\* loaded moves the offsets by the distance from the drag start, makes the
\* pointer position the drag start and pushes one history entry; any other
\* drag event changes nothing. Two drag events in a row move the offsets,
\* together, by the distance from the first drag start to the last position.
C36_DragGating ==
    /\ [][\A v \in Views, pt \in Points :
             (Tick /\ Becomes(drag_kv(Cur, v, pt)))
             => IF DragActs(Cur, v)
                THEN /\ drag_start' = pt
                     /\ kv_offsets'[XKey(v)]
                          = kv_offsets[XKey(v)] + pt[1] - drag_start[1]
                     /\ kv_offsets'[XKey(IF v = "ap" THEN "lat" ELSE "ap")]
                          = kv_offsets[XKey(IF v = "ap" THEN "lat" ELSE "ap")]
                     /\ kv_offsets'.ap_y = kv_offsets.ap_y + pt[2] - drag_start[2]
                     /\ kv_offsets'.lat_y = kv_offsets.lat_y + pt[2] - drag_start[2]
                     /\ PushedOne
                ELSE UNCHANGED objvars]_vars
    /\ [](\A v \in Views, p \in Points, q \in Points :
             DragActs(Cur, v)
             => LET t == drag_kv(drag_kv(Cur, v, p), v, q)
                IN  /\ t.drag_start = q
                    /\ t.kv_offsets[XKey(v)]
                         = kv_offsets[XKey(v)] + q[1] - drag_start[1]
                    /\ t.kv_offsets.ap_y = kv_offsets.ap_y + q[2] - drag_start[2])

\* The button went down on AP at (10, 10) and the pointer was dragged to
\* (13, 12) with KV AP loaded.
C36_Witness ==
    /\ images.kv_ap # None
    /\ active_view = "ap"
    /\ drag_start = <<13, 12>>
    /\ kv_offsets = [ap_x |-> 3, ap_y |-> 2, lat_x |-> 0, lat_y |-> 2]
    /\ Len(history) = 2

\* C37: a zoom request on a view that lacks its DRR or its KV changes
\* nothing.
C37_ZoomGating ==
    [][\A v \in Views, up \in BOOLEAN, c \in Cursors :
          (/\ Tick
           /\ Becomes(zoom(Cur, v, up, c[1], c[2]))
           /\ ~ViewComplete(v))
          => UNCHANGED objvars]_vars

\* LAT has its KV and no DRR; two events after the load the zooms, the pans
\* and the history are as the load left them, as a zoom request on LAT
\* leaves them.
C37_Witness ==
    /\ images.kv_lat # None
    /\ images.drr_lat = None
    /\ nEvents = 3
    /\ status_var = "Loaded"
    /\ zoom(Cur, "lat", TRUE, 300, 200) = Cur
    /\ zoom_levels = DefaultZoom
    /\ pan_offsets = DefaultPan
    /\ Len(history) = 1

\* C38: an adjustment request (kind, value) on a target slot without an
\* original stores the value for the target's view, changes no working
\* raster and pushes no history entry.
C38_AdjustWithoutRaster ==
    [][\A kind \in Kinds, x \in AdjValues :
          LET T == current_adjustment_image
          IN  (/\ Tick
               /\ Becomes(adjust_image(Cur, kind, x))
               /\ original_images[T] = None)
              => /\ adjustment_values'[kind][ViewOf(T)] = x
                 /\ images' = images
                 /\ original_images' = original_images
                 /\ Len(history') = Len(history)
                 /\ alias = 0 => history' = history]_vars

\* Nothing was loaded; brightness 1.5 and contrast 0.5 are stored for AP
\* and the history has its baseline entry alone.
C38_Witness ==
    /\ original_images[current_adjustment_image] = None
    /\ adjustment_values.brightness.ap = 150
    /\ adjustment_values.contrast.ap = 50
    /\ Len(history) = 1

====
